---- MODULE Spec2Model ----
(***************************************************************************)
(* A model of the cf "seed" plugin (seed.go): the apply and teardown runs  *)
(* of SeedPlugin.Run over a manifest, the deployment of one application,   *)
(* the route lookup (getAppInfo / firstAppRoute) and the service-broker    *)
(* registration and deregistration built on it.                            *)
(*                                                                         *)
(* Go strings are sequences of tokens, so that concatenation and           *)
(* fmt.Sprintf are \o and the empty string is << >>.  A command issued     *)
(* through the CLI connection is one entry of log.                         *)
(***************************************************************************)
EXTENDS Integers, Sequences, FiniteSets, TLC

\* ------------------------------------------------------------------ bounds
\* organizations of the generated manifests
MaxOrgs == 2
\* serviceAccess entries of the generated broker application
MaxAccess == 2
\* applications the platform returns for one app search
MaxMatches == 2
\* routes of the platform's routes collection of one application
MaxRoutes == 2
\* failing calls (CLI commands, queries, local tools) in one run
MaxFaults == 2
\* times the processor passes from one of two concurrent runs to the other
MaxSwitches == 2

\* ----------------------------------------------------------------- strings
Empty == << >>

S(t) == <<t>>

Digits == <<"1", "2", "3", "4", "5", "6", "7", "8", "9">>

Num(n) == <<Digits[n]>>

\* s is a contiguous part of t
Contains(t, s) ==
  \E b \in 1..(Len(t) - Len(s) + 1) : SubSeq(t, b, b + Len(s) - 1) = s

IsPrefix(s, t) == Len(s) <= Len(t) /\ SubSeq(t, 1, Len(s)) = s

\* ---------------------------------------------------------- manifest model
emptyServiceBroker ==
  [Name |-> Empty, Username |-> Empty, Password |-> Empty, Url |-> Empty]

ServiceBroker(n, u, p) ==
  [Name |-> n, Username |-> u, Password |-> p, Url |-> Empty]

Service(name, service, plan, org) ==
  [Name |-> name, Service |-> service, Plan |-> plan, Org |-> org]

App(name, repo, path, memory, instances, broker, access) ==
  [Name |-> name, Repo |-> repo, Path |-> path, Disk |-> Empty,
   Memory |-> memory, Instances |-> instances, Hostname |-> Empty,
   Domain |-> Empty, Buildpack |-> Empty, Manifest |-> Empty,
   ServiceBroker |-> broker, ServiceAccess |-> access]

Space(name, apps, services) ==
  [Name |-> name, Apps |-> apps, Services |-> services]

Organization(name, spaces) == [Name |-> name, Spaces |-> spaces]

SeederManifest(orgs) == [Organizations |-> orgs]

\* the applications the manifests are built from
apiApp ==
  App(S("api"), Empty, S("./api"), Empty, Empty, emptyServiceBroker, << >>)

apiBrokerApp ==
  App(S("api"), Empty, S("./api"), Empty, Empty,
      ServiceBroker(S("b1"), S("u"), S("p")),
      <<Service(Empty, S("s1"), S("free"), Empty)>>)

webApp ==
  App(S("web"), S("git://web"), Empty, S("256M"), S("2"),
      emptyServiceBroker, << >>)

badApp ==
  App(S("bad"), Empty, Empty, Empty, Empty, emptyServiceBroker, << >>)

\* access entry n: odd entries carry a plan, even entries an organization
AccessEntry(n) ==
  Service(Empty, S("svc") \o Num(n),
          IF n % 2 = 1 THEN S("free") ELSE Empty,
          IF n % 2 = 0 THEN S("acme") ELSE Empty)

brkApp(n) ==
  App(S("brk"), S("git://brk"), Empty, Empty, Empty,
      ServiceBroker(S("b2"), S("admin"), S("secret")),
      [a \in 1..n |-> AccessEntry(a)])

\* a broker descriptor with nothing but a user name is non-empty too
userOnlyApp ==
  App(S("usr"), Empty, S("./usr"), Empty, Empty,
      ServiceBroker(Empty, S("u"), Empty), << >>)

dbService == Service(S("db"), S("mysql"), S("small"), Empty)

\* organization n of a generated manifest: the first one has two spaces
GenOrg(n) ==
  Organization(S("org") \o Num(n),
    IF n = 1
      THEN <<Space(S("dev"), <<webApp>>, <<dbService>>),
             Space(S("prod"), <<apiBrokerApp>>, << >>)>>
      ELSE <<Space(S("dev"), <<apiApp>>, <<dbService>>)>>)

GenManifest(n) == SeederManifest([o \in 1..n |-> GenOrg(o)])

AcmeManifest ==
  SeederManifest(<<Organization(S("acme"),
                     <<Space(S("dev"), <<apiApp>>, << >>)>>)>>)

AcmeBrokerManifest ==
  SeederManifest(<<Organization(S("acme"),
                     <<Space(S("dev"), <<apiBrokerApp>>, << >>)>>)>>)

\* an application without repo and path between two deployable ones
BadManifest ==
  SeederManifest(<<Organization(S("acme"),
                     <<Space(S("dev"), <<userOnlyApp, badApp, apiApp>>,
                             <<dbService>>)>>)>>)

\* the manifest of a second run, sharing no name with AcmeBrokerManifest
jobApp ==
  App(S("job"), S("git://job"), Empty, Empty, Empty, emptyServiceBroker, << >>)

cacheService == Service(S("cache"), S("redis"), S("tiny"), Empty)

BetaManifest ==
  SeederManifest(<<Organization(S("beta"),
                     <<Space(S("qa"), <<jobApp>>, <<cacheService>>)>>)>>)

\* every access-list length up to the bound, and an empty space and org
BrokerManifest(n) ==
  SeederManifest(<<Organization(S("acme"),
                     <<Space(S("dev"), <<brkApp(n)>>, << >>),
                       Space(S("empty"), << >>, << >>)>>),
                   Organization(S("none"), << >>)>>)

Manifests ==
  {AcmeManifest, AcmeBrokerManifest, BadManifest}
    \cup {GenManifest(n) : n \in 0..MaxOrgs}
    \cup {BrokerManifest(n) : n \in 0..MaxAccess}

\* ------------------------------------------------------------ control flow
\* The position of a run: the loop (op) of SeedPlugin.Run being executed, the
\* indices of the organization (i), space (j) and application or service (k)
\* its range loops stand at, the statement about to run (step) and the index
\* into the serviceAccess list (a).
\* Run creating the services before the applications
ApplyOpsServicesFirst ==
  <<"createOrganizations", "createSpaces", "createServices", "createApps">>

ApplyOps ==
  <<"createOrganizations", "createSpaces", "createApps", "createServices">>

\* Run deleting the organizations before what they hold
TeardownOpsOrgsFirst ==
  <<"deleteOrganizations", "deleteApps", "deleteServices", "deleteSpaces">>

TeardownOps ==
  <<"deleteApps", "deleteServices", "deleteSpaces", "deleteOrganizations">>

OrgOps == {"createOrganizations", "deleteOrganizations"}

SpaceOps == {"createSpaces", "deleteSpaces"}

AppOps == {"createApps", "deleteApps"}

Pos(op, i, j, k) == [op |-> op, i |-> i, j |-> j, k |-> k, step |-> "", a |-> 0]

At(p, step, a) == [p EXCEPT !.step = step, !.a = a]

\* the loop that Run calls after op
NextOp(op) ==
  LET ops == IF \E n \in 1..4 : ApplyOps[n] = op THEN ApplyOps ELSE TeardownOps
      n == CHOOSE x \in 1..4 : ops[x] = op
  IN IF n = 4 THEN "done" ELSE ops[n + 1]

\* the head of a loop nest: the organization loops and the space loops start
\* at organization 1, the application and service loops at its space 1, about
\* to target it (k = 0)
Start(op) ==
  IF op = "done" THEN Pos("done", 0, 0, 0)
  ELSE IF op \in OrgOps \cup SpaceOps THEN Pos(op, 1, 0, 0)
  ELSE Pos(op, 1, 1, 0)

Items(space, op) == IF op \in AppOps THEN space.Apps ELSE space.Services

\* the exhausted range loops are left until a position with a statement to
\* run is reached; after the last loop of Run the run is done
RECURSIVE Norm(_, _)
Norm(man, p) ==
  LET orgs == man.Organizations IN
  IF p.op = "done" THEN p
  ELSE IF p.i > Len(orgs) THEN Norm(man, Start(NextOp(p.op)))
  ELSE IF p.op \in OrgOps THEN p
  ELSE IF p.j > Len(orgs[p.i].Spaces)
    THEN Norm(man, Pos(p.op, p.i + 1, IF p.op \in SpaceOps THEN 0 ELSE 1, 0))
  ELSE IF p.op \in SpaceOps THEN p
  ELSE IF p.k > Len(Items(orgs[p.i].Spaces[p.j], p.op))
    THEN Norm(man, Pos(p.op, p.i, p.j + 1, 0))
  ELSE p

OrgAt(man, p) == man.Organizations[p.i]

SpaceAt(man, p) == man.Organizations[p.i].Spaces[p.j]

AppAt(man, p) == man.Organizations[p.i].Spaces[p.j].Apps[p.k]

ServiceAt(man, p) == man.Organizations[p.i].Spaces[p.j].Services[p.k]

\* only a named broker taken for one
IsBrokerByName(app) == app.ServiceBroker.Name # Empty

\* app.ServiceBroker != emptyServiceBroker
IsBroker(app) == app.ServiceBroker # emptyServiceBroker

\* the first statement run at a position
FirstStep(man, p) ==
  CASE p.op = "done" -> ""
    [] p.op = "createOrganizations" -> "create-org"
    [] p.op = "deleteOrganizations" -> "delete-org"
    [] p.op \in SpaceOps /\ p.j = 0 -> "target"
    [] p.op = "createSpaces" -> "create-space"
    [] p.op = "deleteSpaces" -> "delete-space"
    [] p.k = 0 -> "target"
    [] p.op = "createServices" -> "create-service"
    [] p.op = "deleteServices" -> "delete-service"
    [] p.op = "createApps" -> "deployApp"
    [] OTHER -> IF IsBroker(AppAt(man, p)) THEN "getAppInfo" ELSE "delete"

Goto(man, p) ==
  LET q == Norm(man, p) IN At(q, FirstStep(man, q), 0)

\* the next iteration of the innermost loop p stands in
NextItem(man, p) ==
  Goto(man, IF p.op \in OrgOps THEN Pos(p.op, p.i + 1, 0, 0)
            ELSE IF p.op \in SpaceOps THEN Pos(p.op, p.i, p.j + 1, 0)
            ELSE Pos(p.op, p.i, p.j, p.k + 1))

Failed(p) == [p EXCEPT !.op = "failed"]

Panicked(p) == [p EXCEPT !.op = "panicked"]

\* ------------------------------------------------------- commands and errors
\* One call made by the run: a CLI command (CliCommand), a query
\* (CliCommandWithoutTerminalOutput "curl") or the git clone of deployApp;
\* ok is its result and at the position of the run that made it.
Entry(kind, args, ok, p) ==
  [kind |-> kind, args |-> args, ok |-> ok,
   at |-> [op |-> p.op, i |-> p.i, j |-> p.j, k |-> p.k]]

Cli(args, ok, p) == Entry("cli", args, ok, p)

Query(path, ok, p) == Entry("query", <<S("curl"), path>>, ok, p)

Git(args, ok, p) == Entry("git", args, ok, p)

\* the error a failed CLI command returns
CommandError == S("command failed")

\* exec.LookPath("git") failing
LookPathError == S("exec: git: executable file not found in $PATH")

\* the core_config repository could not be read: its handler is fatalIf
ConfigError == S("error reading config")

\* the message without the %s of the name
NeedRepoOrPathUnnamed(name) == S("App need repo or path ")

\* fmt.Sprintf("App need repo or path %s", app.Name)
NeedRepoOrPath(name) == S("App need repo or path ") \o name

\* fmt.Errorf("App '%s' has no routes", app.Entity.Name)
NoRoutes(name) == S("App '") \o name \o S("' has no routes")

\* os.Getwd()
wd == S("/work")

\* wd + "/apps/" + app.Name
AppPath(app) == wd \o S("/apps/") \o app.Name

\* if value != "" { args = append(args, flag, value) }
Flag(flag, value) == IF value # Empty THEN <<S(flag), value>> ELSE << >>

\* a push that gives the directory of the repository mode in both modes
PushArgsRepoOnly(app) ==
  <<S("push"), app.Name, S("-p"), AppPath(app)>>
    \o Flag("-k", app.Disk) \o Flag("-m", app.Memory)
    \o Flag("-i", app.Instances) \o Flag("-n", app.Hostname)
    \o Flag("-d", app.Domain) \o Flag("-b", app.Buildpack)
    \o Flag("-f", app.Manifest)

\* the push command of deployApp
PushArgs(app) ==
  <<S("push"), app.Name>>
    \o (IF app.Repo # Empty THEN <<S("-p"), AppPath(app)>>
        ELSE <<S("-p"), app.Path>>)
    \o Flag("-k", app.Disk) \o Flag("-m", app.Memory)
    \o Flag("-i", app.Instances) \o Flag("-n", app.Hostname)
    \o Flag("-d", app.Domain) \o Flag("-b", app.Buildpack)
    \o Flag("-f", app.Manifest)

CreateServiceBrokerArgs(broker) ==
  <<S("create-service-broker"), broker.Name, broker.Username,
    broker.Password, broker.Url>>

\* the broker deleted without the force flag
DeleteServiceBrokerArgsNoForce(broker) ==
  <<S("delete-service-broker"), broker.Name>>

DeleteServiceBrokerArgs(broker) ==
  <<S("delete-service-broker"), broker.Name, S("-f")>>

\* the plan of the access entry left out
EnableServiceAccessArgsNoPlan(service) ==
  <<S("enable-service-access"), service.Service>> \o Flag("-o", service.Org)

EnableServiceAccessArgs(service) ==
  <<S("enable-service-access"), service.Service>>
    \o Flag("-p", service.Plan) \o Flag("-o", service.Org)

DisableServiceAccessArgs(service) ==
  <<S("disable-service-access"), service.Service>>
    \o Flag("-p", service.Plan) \o Flag("-o", service.Org)

\* the scheme left at http
BrokerUrlPlain(appRoute) == S("http://") \o appRoute

\* "https://" + appRoute
BrokerUrl(appRoute) == S("https://") \o appRoute

\* ---------------------------------------------------------------- platform
\* The session of the cf CLI: the organization and space last targeted.
NoTarget == [org |-> Empty, space |-> Empty]

OldTarget == [org |-> S("old"), space |-> S("old")]

\* confRepo.SpaceFields().Guid: the space of the session, "" without one
SpaceGuid(s) ==
  IF s.space = Empty THEN Empty
  ELSE S("guid:") \o s.org \o S("/") \o s.space

\* the session left as it was by every target command
TargetedKept(s, org, space, ok) == {s}

\* a target command that succeeds sets the session; one that fails leaves it,
\* clears it, or has set the organization before the space was refused
Targeted(s, org, space, ok) ==
  IF ok THEN {[org |-> org, space |-> space]}
  ELSE {s, NoTarget} \cup (IF space # Empty THEN {[org |-> org, space |-> Empty]} ELSE {})

\* What the platform holds for one application name at the time of a lookup:
\* the applications of that name in the space searched (their guids, in the
\* platform's order) and the routes of the first of them.
AppGuid(n) == S("app-") \o Num(n)

SearchResults == {[m \in 1..n |-> AppGuid(m)] : n \in 0..MaxMatches}

RoutePool ==
  {[Host |-> S("web-abc"), DomainURL |-> S("/v2/domains/d1")],
   [Host |-> Empty, DomainURL |-> S("/v2/domains/d2")]}

OtherRoute == [Host |-> S("other"), DomainURL |-> S("/v2/domains/d3")]

RouteCollections ==
  {<< >>} \cup
  {[r \in 1..n |-> IF r = 1 THEN first ELSE OtherRoute] :
     first \in RoutePool, n \in 1..MaxRoutes}

PlatformViews(name) ==
  [name : {name}, search : SearchResults, routes : RouteCollections]

NoView == [name |-> Empty, search |-> << >>, routes |-> << >>]

\* the decoded responses; a query that fails, or that the platform has no
\* resource for, leaves the zero value of the struct decoded into
ZeroApp == [Name |-> Empty, RoutesURL |-> Empty]

ZeroRoute == [Host |-> Empty, DomainURL |-> Empty]

ZeroRoutes == [TotalResults |-> 0, Resources |-> << >>]

\* fmt.Sprintf("/v2/spaces/%v/apps?q=name:%v&inline-relations-depth=1", ...)
AppQuery(spaceGUID, appName) ==
  S("/v2/spaces/") \o spaceGUID \o S("/apps?q=name:") \o appName
    \o S("&inline-relations-depth=1")

\* fmt.Sprintf("/v2/apps/%s", appGUID)
AppDetailPath(appGUID) == S("/v2/apps/") \o appGUID

RoutesURL(appGUID) == AppDetailPath(appGUID) \o S("/routes")

PlatformSearch(pv, ok) == IF ok THEN pv.search ELSE << >>

PlatformApp(pv, path, ok) ==
  IF ok /\ \E m \in 1..Len(pv.search) : path = AppDetailPath(pv.search[m])
    THEN LET m == CHOOSE x \in 1..Len(pv.search) :
                    path = AppDetailPath(pv.search[x])
         IN [Name |-> pv.name, RoutesURL |-> RoutesURL(pv.search[m])]
    ELSE ZeroApp

PlatformRoutes(pv, path, ok) ==
  LET rs == IF ~ok \/ pv.search = << >> THEN << >>
            ELSE IF path = RoutesURL(pv.search[1]) THEN pv.routes
            ELSE IF \E m \in 2..Len(pv.search) : path = RoutesURL(pv.search[m])
              THEN <<OtherRoute>>
            ELSE << >>
  IN [TotalResults |-> Len(rs), Resources |-> rs]

PlatformDomain(path, ok) ==
  IF ~ok THEN Empty
  ELSE CASE path = S("/v2/domains/d1") -> S("example.com")
         [] path = S("/v2/domains/d2") -> S("apps.io")
         [] path = S("/v2/domains/d3") -> S("other.net")
         [] OTHER -> Empty

\* the host test of firstAppRoute dropped
FullRouteAlwaysHost(route, domainName) == route.Host \o S(".") \o domainName

\* the return statements of firstAppRoute
FullRoute(route, domainName) ==
  IF route.Host # Empty THEN route.Host \o S(".") \o domainName
  ELSE domainName

\* the directory apps/<appName> of the working directory
DirStates == {"absent", "empty", "nonempty"}

Range(f) == {f[x] : x \in DOMAIN f}

AllApps(man) ==
  UNION {UNION {Range(sp.Apps) : sp \in Range(org.Spaces)} :
           org \in Range(man.Organizations)}

RepoNames(man) == {app.Name : app \in {x \in AllApps(man) : x.Repo # Empty}}

\* ------------------------------------------------------------------- state
VARIABLES
  manifest,  \* repo.Manifest, read before the run and never changed
  cleanup,   \* the -c flag: teardown instead of apply
  pc,        \* the position of the run
  log,       \* the calls made so far, in order
  session,   \* the organization and space the cf session targets
  fs,        \* the state of apps/<name> for the repository applications
  plat,      \* what the platform holds for the application being looked up
  loc,       \* the locals of setAppAsService / deleteAppAsService
  err,       \* the error handed to fatalIf, "" while there is none
  faults,    \* the number of calls that have failed
  other,     \* the run of a second seed process, while this one has the
             \* processor: its manifest, cleanup, pc, plat, loc and err
  switches   \* the number of times the processor has changed hands

vars ==
  <<manifest, cleanup, pc, log, session, fs, plat, loc, err, faults, other,
    switches>>

ZeroLoc ==
  [spaceGUID |-> Empty, res |-> << >>, appGUID |-> Empty, appInfo |-> ZeroApp,
   routes |-> ZeroRoutes, route |-> ZeroRoute, domainName |-> Empty,
   appRoute |-> Empty, Url |-> Empty]

\* a process at the start of Run, its manifest read
RunOf(man, clean) ==
  [manifest |-> man, cleanup |-> clean,
   pc |-> Goto(man, Start(IF clean THEN TeardownOps[1] ELSE ApplyOps[1])),
   plat |-> NoView, loc |-> ZeroLoc, err |-> Empty]

\* no second process: a run with nothing to do
NoRun == RunOf(SeederManifest(<< >>), FALSE)

Init ==
  /\ manifest \in Manifests
  /\ cleanup \in BOOLEAN
  /\ pc = Goto(manifest, Start(IF cleanup THEN TeardownOps[1] ELSE ApplyOps[1]))
  /\ log = << >>
  /\ session \in {NoTarget, OldTarget}
  /\ fs \in IF cleanup THEN {[n \in RepoNames(manifest) |-> "absent"]}
            ELSE [RepoNames(manifest) -> DirStates]
  /\ plat = NoView
  /\ loc = ZeroLoc
  /\ err = Empty
  /\ faults = 0
  /\ other = NoRun
  /\ switches = 0

\* a call may fail while the run has failures left
Outcomes == IF faults < MaxFaults THEN BOOLEAN ELSE {TRUE}

Fault(ok) == IF ok THEN 0 ELSE 1

\* the error of the command dropped as the one of target is
CheckedIgnoringError(args, next) ==
  \E ok \in Outcomes :
    /\ log' = Append(log, Cli(args, ok, pc))
    /\ pc' = next
    /\ faults' = faults + Fault(ok)
    /\ UNCHANGED <<other, switches, manifest, cleanup, session, fs, plat, loc, err>>

\* _, err := repo.conn.CliCommand(args...); if err != nil { return err }, the
\* error reaching fatalIf in Run through the callers' return err
Checked(args, next) ==
  \E ok \in Outcomes :
    /\ log' = Append(log, Cli(args, ok, pc))
    /\ pc' = IF ok THEN next ELSE Failed(pc)
    /\ err' = IF ok THEN err ELSE CommandError
    /\ faults' = faults + Fault(ok)
    /\ UNCHANGED <<other, switches, manifest, cleanup, session, fs, plat, loc>>

\* the result of target checked as that of the other commands is
TargetChecked(org, space) ==
  \E ok \in Outcomes :
    /\ log' = Append(log, Cli(<<S("target"), S("-o"), org>> \o Flag("-s", space),
                              ok, pc))
    /\ session' \in Targeted(session, org, space, ok)
    /\ pc' = IF ok THEN NextItem(manifest, pc) ELSE Failed(pc)
    /\ err' = IF ok THEN err ELSE CommandError
    /\ faults' = faults + Fault(ok)
    /\ UNCHANGED <<other, switches, manifest, cleanup, fs, plat, loc>>

\* repo.conn.CliCommand("target", ...): the result is dropped
Target(org, space) ==
  \E ok \in Outcomes :
    /\ log' = Append(log, Cli(<<S("target"), S("-o"), org>> \o Flag("-s", space),
                              ok, pc))
    /\ session' \in Targeted(session, org, space, ok)
    /\ pc' = NextItem(manifest, pc)
    /\ faults' = faults + Fault(ok)
    /\ UNCHANGED <<other, switches, manifest, cleanup, fs, plat, loc, err>>

\* ------------------------------------------------- organizations and spaces
CreateOrganization ==
  /\ pc.op = "createOrganizations"
  /\ Checked(<<S("create-org"), OrgAt(manifest, pc).Name>>,
             NextItem(manifest, pc))

DeleteOrganization ==
  /\ pc.op = "deleteOrganizations"
  /\ Checked(<<S("delete-org"), OrgAt(manifest, pc).Name, S("-f")>>,
             NextItem(manifest, pc))

CreateSpacesTarget ==
  /\ pc.op = "createSpaces" /\ pc.step = "target"
  /\ Target(OrgAt(manifest, pc).Name, Empty)

CreateSpace ==
  /\ pc.op = "createSpaces" /\ pc.step = "create-space"
  /\ Checked(<<S("create-space"), SpaceAt(manifest, pc).Name>>,
             NextItem(manifest, pc))

DeleteSpacesTarget ==
  /\ pc.op = "deleteSpaces" /\ pc.step = "target"
  /\ Target(OrgAt(manifest, pc).Name, Empty)

DeleteSpace ==
  /\ pc.op = "deleteSpaces" /\ pc.step = "delete-space"
  /\ Checked(<<S("delete-space"), SpaceAt(manifest, pc).Name, S("-f")>>,
             NextItem(manifest, pc))

\* ---------------------------------------------------------------- services
\* the services created with the organization targeted and no space
CreateServicesTargetOrgOnly ==
  /\ pc.op = "createServices" /\ pc.step = "target"
  /\ Target(OrgAt(manifest, pc).Name, Empty)

CreateServicesTarget ==
  /\ pc.op = "createServices" /\ pc.step = "target"
  /\ Target(OrgAt(manifest, pc).Name, SpaceAt(manifest, pc).Name)

CreateService ==
  /\ pc.op = "createServices" /\ pc.step = "create-service"
  /\ LET service == ServiceAt(manifest, pc) IN
       Checked(<<S("create-service"), service.Service, service.Plan,
                 service.Name>>,
               NextItem(manifest, pc))

DeleteServicesTarget ==
  /\ pc.op = "deleteServices" /\ pc.step = "target"
  /\ Target(OrgAt(manifest, pc).Name, SpaceAt(manifest, pc).Name)

DeleteService ==
  /\ pc.op = "deleteServices" /\ pc.step = "delete-service"
  /\ Checked(<<S("delete-service"), ServiceAt(manifest, pc).Name, S("-f")>>,
             NextItem(manifest, pc))

\* ------------------------------------------------------------ applications
CreateAppsTarget ==
  /\ pc.op = "createApps" /\ pc.step = "target"
  /\ Target(OrgAt(manifest, pc).Name, SpaceAt(manifest, pc).Name)

DeleteAppsTarget ==
  /\ pc.op = "deleteApps" /\ pc.step = "target"
  /\ Target(OrgAt(manifest, pc).Name, SpaceAt(manifest, pc).Name)

\* the directory taken for empty whatever it holds
NoFilesAlways(dir) == TRUE

\* files, _ := ioutil.ReadDir(appPath); len(files) == 0.  The listing of a
\* directory that is there succeeds; that of a missing one yields no files.
NoFiles(dir) == dir # "nonempty"

\* os.MkdirAll(appPath, 0777), its result dropped
MkdirAll(dir, ok) == IF dir = "absent" /\ ok THEN "empty" ELSE dir

\* createApps after deployApp returned nil: the broker registration of the
\* application when its ServiceBroker is set, else the next application
AfterDeploy(man, p) ==
  IF IsBroker(AppAt(man, p)) THEN At(p, "getAppInfo", 0) ELSE NextItem(man, p)

\* deployApp up to its first call: the source of the application is chosen
DeployApp ==
  /\ pc.op = "createApps" /\ pc.step = "deployApp"
  /\ LET app == AppAt(manifest, pc) IN
       IF app.Repo # Empty
         THEN \E mk \in (IF fs[app.Name] = "absent" THEN Outcomes ELSE {TRUE}) :
                LET dir == MkdirAll(fs[app.Name], mk)
                    f1 == faults + Fault(mk)
                IN /\ fs' = [fs EXCEPT ![app.Name] = dir]
                   /\ IF NoFiles(dir)
                        THEN \E lp \in (IF f1 < MaxFaults THEN BOOLEAN ELSE {TRUE}) :
                               /\ pc' = IF lp THEN At(pc, "clone", 0) ELSE Failed(pc)
                               /\ err' = IF lp THEN err ELSE LookPathError
                               /\ faults' = f1 + Fault(lp)
                        ELSE /\ pc' = At(pc, "push", 0)
                             /\ err' = err
                             /\ faults' = f1
         ELSE IF app.Path # Empty
           THEN /\ pc' = At(pc, "push", 0)
                /\ UNCHANGED <<fs, err, faults>>
           ELSE /\ pc' = Failed(pc)
                /\ err' = NeedRepoOrPath(app.Name)
                /\ UNCHANGED <<fs, faults>>
  /\ UNCHANGED <<other, switches, manifest, cleanup, log, session, plat, loc>>

\* exec.Command(gitPath, "clone", app.Repo, appPath).Run(); when it fails
\* deployApp returns nil without pushing
GitClone ==
  /\ pc.op = "createApps" /\ pc.step = "clone"
  /\ LET app == AppAt(manifest, pc) IN
       \E ok \in Outcomes :
         /\ log' = Append(log, Git(<<S("clone"), app.Repo, AppPath(app)>>, ok, pc))
         /\ fs' = IF ok THEN [fs EXCEPT ![app.Name] = "nonempty"] ELSE fs
         /\ pc' = IF ok THEN At(pc, "push", 0) ELSE AfterDeploy(manifest, pc)
         /\ faults' = faults + Fault(ok)
  /\ UNCHANGED <<other, switches, manifest, cleanup, session, plat, loc, err>>

\* repo.conn.CliCommand(args...); return nil
Push ==
  /\ pc.op = "createApps" /\ pc.step = "push"
  /\ \E ok \in Outcomes :
       /\ log' = Append(log, Cli(PushArgs(AppAt(manifest, pc)), ok, pc))
       /\ faults' = faults + Fault(ok)
  /\ pc' = AfterDeploy(manifest, pc)
  /\ UNCHANGED <<other, switches, manifest, cleanup, session, fs, plat, loc, err>>

DeleteApp ==
  /\ pc.op = "deleteApps" /\ pc.step = "delete"
  /\ Checked(<<S("delete"), AppAt(manifest, pc).Name, S("-f"), S("-r")>>,
             NextItem(manifest, pc))

\* ------------------------------------------------------------ route lookup
\* getAppInfo up to its first query: the space guid is read from the
\* configuration of the cf session
GetAppInfo ==
  /\ pc.op \in AppOps /\ pc.step = "getAppInfo"
  /\ \E ok \in Outcomes :
       /\ pc' = IF ok THEN At(pc, "findAppGUID", 0) ELSE Failed(pc)
       /\ err' = IF ok THEN err ELSE ConfigError
       /\ loc' = IF ok THEN [ZeroLoc EXCEPT !.spaceGUID = SpaceGuid(session)]
                 ELSE loc
       /\ faults' = faults + Fault(ok)
  /\ UNCHANGED <<other, switches, manifest, cleanup, log, session, fs, plat>>

\* findAppGUID: res.Resources[0] of an empty result is an index out of range
FindAppGUID ==
  /\ pc.op \in AppOps /\ pc.step = "findAppGUID"
  /\ LET app == AppAt(manifest, pc) IN
       \E pv \in PlatformViews(app.Name), ok \in Outcomes :
         LET res == PlatformSearch(pv, ok) IN
           /\ plat' = pv
           /\ log' = Append(log, Query(AppQuery(loc.spaceGUID, app.Name), ok, pc))
           /\ pc' = IF res = << >> THEN Panicked(pc) ELSE At(pc, "findApp", 0)
           /\ loc' = IF res = << >> THEN loc
                     ELSE [loc EXCEPT !.res = res, !.appGUID = res[1]]
           /\ faults' = faults + Fault(ok)
  /\ UNCHANGED <<other, switches, manifest, cleanup, session, fs, err>>

FindApp ==
  /\ pc.op \in AppOps /\ pc.step = "findApp"
  /\ \E ok \in Outcomes :
       LET path == AppDetailPath(loc.appGUID) IN
         /\ log' = Append(log, Query(path, ok, pc))
         /\ loc' = [loc EXCEPT !.appInfo = PlatformApp(plat, path, ok)]
         /\ faults' = faults + Fault(ok)
  /\ pc' = At(pc, "routes", 0)
  /\ UNCHANGED <<other, switches, manifest, cleanup, session, fs, plat, err>>

\* firstAppRoute up to the choice of the first route
FirstAppRouteRoutes ==
  /\ pc.op \in AppOps /\ pc.step = "routes"
  /\ \E ok \in Outcomes :
       LET routes == PlatformRoutes(plat, loc.appInfo.RoutesURL, ok) IN
         /\ log' = Append(log, Query(loc.appInfo.RoutesURL, ok, pc))
         /\ faults' = faults + Fault(ok)
         /\ IF routes.TotalResults = 0
              THEN /\ pc' = Failed(pc)
                   /\ err' = NoRoutes(loc.appInfo.Name)
                   /\ loc' = loc
              ELSE /\ pc' = At(pc, "domain", 0)
                   /\ err' = err
                   /\ loc' = [loc EXCEPT !.routes = routes,
                                         !.route = routes.Resources[1]]
  /\ UNCHANGED <<other, switches, manifest, cleanup, session, fs, plat>>

\* the broker deleted without its access entries being disabled first
AfterRouteSkipAccess(man, p) ==
  IF p.op = "createApps" THEN At(p, "createServiceBroker", 0)
  ELSE At(p, "deleteServiceBroker", 0)

\* the first statements of the broker steps after the lookup: app.ServiceAccess
\* is walked from its first entry
AfterRoute(man, p) ==
  IF p.op = "createApps" THEN At(p, "createServiceBroker", 0)
  ELSE IF AppAt(man, p).ServiceAccess # << >>
    THEN At(p, "disableServiceAccess", 1)
  ELSE At(p, "deleteServiceBroker", 0)

\* the rest of firstAppRoute and app.ServiceBroker.Url = "https://" + appRoute
FirstAppRouteDomain ==
  /\ pc.op \in AppOps /\ pc.step = "domain"
  /\ \E ok \in Outcomes :
       LET domainName == PlatformDomain(loc.route.DomainURL, ok)
           appRoute == FullRoute(loc.route, domainName)
       IN /\ log' = Append(log, Query(loc.route.DomainURL, ok, pc))
          /\ loc' = [loc EXCEPT !.domainName = domainName,
                                !.appRoute = appRoute,
                                !.Url = BrokerUrl(appRoute)]
          /\ faults' = faults + Fault(ok)
  /\ pc' = AfterRoute(manifest, pc)
  /\ UNCHANGED <<other, switches, manifest, cleanup, session, fs, plat, err>>

\* ----------------------------------------------------------- service broker
\* the broker of the application with the Url computed by the lookup
BrokerOf(app, url) == [app.ServiceBroker EXCEPT !.Url = url]

\* the loop over app.ServiceAccess: its next entry, or what follows the loop
NextAccess(man, p, after) ==
  IF p.a < Len(AppAt(man, p).ServiceAccess) THEN At(p, p.step, p.a + 1)
  ELSE after

CreateServiceBroker ==
  /\ pc.op = "createApps" /\ pc.step = "createServiceBroker"
  /\ Checked(CreateServiceBrokerArgs(BrokerOf(AppAt(manifest, pc), loc.Url)),
             NextAccess(manifest, At(pc, "enableServiceAccess", 0),
                        NextItem(manifest, pc)))

EnableServiceAccess ==
  /\ pc.op = "createApps" /\ pc.step = "enableServiceAccess"
  /\ Checked(EnableServiceAccessArgs(AppAt(manifest, pc).ServiceAccess[pc.a]),
             NextAccess(manifest, pc, NextItem(manifest, pc)))

DisableServiceAccess ==
  /\ pc.op = "deleteApps" /\ pc.step = "disableServiceAccess"
  /\ Checked(DisableServiceAccessArgs(AppAt(manifest, pc).ServiceAccess[pc.a]),
             NextAccess(manifest, pc, At(pc, "deleteServiceBroker", 0)))

DeleteServiceBroker ==
  /\ pc.op = "deleteApps" /\ pc.step = "deleteServiceBroker"
  /\ Checked(DeleteServiceBrokerArgs(BrokerOf(AppAt(manifest, pc), loc.Url)),
             At(pc, "delete", 0))

\* ------------------------------------------------------------ specification
Next ==
  \/ CreateOrganization
  \/ DeleteOrganization
  \/ CreateSpacesTarget
  \/ CreateSpace
  \/ DeleteSpacesTarget
  \/ DeleteSpace
  \/ CreateServicesTarget
  \/ CreateService
  \/ DeleteServicesTarget
  \/ DeleteService
  \/ CreateAppsTarget
  \/ DeleteAppsTarget
  \/ DeployApp
  \/ GitClone
  \/ Push
  \/ DeleteApp
  \/ GetAppInfo
  \/ FindAppGUID
  \/ FindApp
  \/ FirstAppRouteRoutes
  \/ FirstAppRouteDomain
  \/ CreateServiceBroker
  \/ EnableServiceAccess
  \/ DisableServiceAccess
  \/ DeleteServiceBroker

Spec == Init /\ [][Next]_vars

\* ---------------------------------------------------------- concurrent runs
\* Two seed processes of one user: each executes Run over its own manifest,
\* with its own position and locals, and both issue their commands to the one
\* cf session of that user (getAppInfo reads its space from the configuration
\* file the target commands write).  No call fails.
InitConc ==
  \E first \in {AcmeBrokerManifest, BetaManifest}, c1, c2 \in BOOLEAN :
    LET second == IF first = BetaManifest THEN AcmeBrokerManifest
                  ELSE BetaManifest
        run == RunOf(first, c1)
    IN /\ manifest = run.manifest
       /\ cleanup = run.cleanup
       /\ pc = run.pc
       /\ plat = run.plat
       /\ loc = run.loc
       /\ err = run.err
       /\ other = RunOf(second, c2)
       /\ log = << >>
       /\ session \in {NoTarget, OldTarget}
       /\ fs = [n \in RepoNames(first) \cup RepoNames(second) |-> "absent"]
       /\ faults = MaxFaults
       /\ switches = 0

\* the processor passes to the other process between two statements of this
\* one, or after this one has ended
Switch ==
  /\ switches < MaxSwitches
  /\ other.pc.op \notin {"done", "failed", "panicked"}
  /\ manifest' = other.manifest
  /\ cleanup' = other.cleanup
  /\ pc' = other.pc
  /\ plat' = other.plat
  /\ loc' = other.loc
  /\ err' = other.err
  /\ other' = [manifest |-> manifest, cleanup |-> cleanup, pc |-> pc,
               plat |-> plat, loc |-> loc, err |-> err]
  /\ switches' = switches + 1
  /\ UNCHANGED <<log, session, fs, faults>>

NextConc == Next \/ Switch

SpecConc == InitConc /\ [][NextConc]_vars

\* ------------------------------------------------------------------ claims
LogIdx == 1..Len(log)

IsCmd(e, name) == e.kind = "cli" /\ e.args[1] = S(name)

\* the second argument of the commands called name, in the order issued
Issued(name) ==
  LET Named(e) == IsCmd(e, name)
      sel == SelectSeq(log, Named)
  IN [n \in 1..Len(sel) |-> sel[n].args[2]]

OrgNames ==
  [i \in 1..Len(manifest.Organizations) |-> manifest.Organizations[i].Name]

AppOfEntry(e) == manifest.Organizations[e.at.i].Spaces[e.at.j].Apps[e.at.k]

\* the log has a command name for resource r, issued for position <<i, j, k>>
\* before entry n
IssuedBefore(n, name, r, i, j, k) ==
  \E m \in 1..(n - 1) :
    /\ IsCmd(log[m], name) /\ log[m].args[2] = r
    /\ log[m].at.i = i /\ log[m].at.j = j /\ log[m].at.k = k

\* C1: apply issues the create-org commands in manifest order (all of them when
\* it completes), teardown the delete-org commands in the same order, and a
\* delete-org of an organization comes only after the delete commands of all
\* its applications, services and spaces.
C1_OrgOrder ==
  /\ IsPrefix(Issued("create-org"), OrgNames)
  /\ IsPrefix(Issued("delete-org"), OrgNames)
  /\ pc.op = "done" =>
       /\ Issued(IF cleanup THEN "delete-org" ELSE "create-org") = OrgNames
       /\ Issued(IF cleanup THEN "create-org" ELSE "delete-org") = << >>
  /\ \A n \in LogIdx :
       IsCmd(log[n], "delete-org") =>
         LET i == log[n].at.i
             org == manifest.Organizations[i]
         IN /\ log[n].args[2] = org.Name
            /\ \A j \in 1..Len(org.Spaces) :
                 LET space == org.Spaces[j] IN
                   /\ IssuedBefore(n, "delete-space", space.Name, i, j, 0)
                   /\ \A k \in 1..Len(space.Apps) :
                        IssuedBefore(n, "delete", space.Apps[k].Name, i, j, k)
                   /\ \A k \in 1..Len(space.Services) :
                        IssuedBefore(n, "delete-service", space.Services[k].Name,
                                     i, j, k)

\* a teardown of two organizations with spaces, applications and services
\* has completed
C1_Witness ==
  /\ cleanup /\ pc.op = "done"
  /\ manifest = GenManifest(2)
  /\ Issued("delete-org") = <<<<"org", "1">>, <<"org", "2">>>>
  /\ Len(Issued("delete")) = 3

CheckedCommands ==
  {"create-org", "create-space", "create-service", "create-service-broker",
   "enable-service-access", "delete", "delete-service", "delete-space",
   "delete-org", "delete-service-broker", "disable-service-access"}

\* C2: once a create, delete, enable-access or disable-access command has
\* returned an error the run has ended in an error state and that command is
\* the last call made: nothing is continued, retried or rolled back.
C2_FailFast ==
  \A n \in LogIdx :
    (log[n].kind = "cli" /\ log[n].args[1][1] \in CheckedCommands /\ ~log[n].ok)
      => /\ n = Len(log)
         /\ pc.op = "failed"
         /\ err # Empty

\* a create-space has failed after a create-org went through
C2_Witness ==
  /\ pc.op = "failed"
  /\ Len(log) >= 3
  /\ IsCmd(log[1], "create-org") /\ log[1].ok
  /\ IsCmd(log[Len(log)], "create-space") /\ ~log[Len(log)].ok

\* C3: a push that fails makes deployApp return an error, so the run aborts
\* with the failed push as its last call.
C3_PushFailureAborts ==
  \A n \in LogIdx :
    (IsCmd(log[n], "push") /\ ~log[n].ok)
      => (pc.op = "failed" /\ n = Len(log))

NoSource(app) == app.Repo = Empty /\ app.Path = Empty

\* t comes before u, both <<i, j, k>>
Before(t, u) ==
  \/ t[1] < u[1]
  \/ t[1] = u[1] /\ t[2] < u[2]
  \/ t[1] = u[1] /\ t[2] = u[2] /\ t[3] < u[3]

AppPositions(man) ==
  UNION {UNION {{<<i, j, k>> :
                   k \in 1..Len(man.Organizations[i].Spaces[j].Apps)} :
                  j \in 1..Len(man.Organizations[i].Spaces)} :
           i \in 1..Len(man.Organizations)}

\* the applications whose deployApp has returned nil in an apply run
Deployed ==
  IF cleanup \/ pc.op \in {"createOrganizations", "createSpaces", "failed", "panicked"}
    THEN {}
  ELSE IF pc.op = "createApps"
    THEN {t \in AppPositions(manifest) :
            \/ Before(t, <<pc.i, pc.j, pc.k>>)
            \/ t = <<pc.i, pc.j, pc.k>> /\ pc.step \notin {"deployApp", "clone", "push"}}
  ELSE AppPositions(manifest)

\* C4: deployApp of an application without repo and path makes no call for
\* it and returns an error that carries the name of the application; the run
\* never gets past such an application.
C4_NeedRepoOrPath ==
  /\ \A n \in LogIdx :
       (log[n].at.op = "createApps" /\ log[n].at.k >= 1)
         => ~NoSource(AppOfEntry(log[n]))
  /\ \A t \in Deployed :
       ~NoSource(manifest.Organizations[t[1]].Spaces[t[2]].Apps[t[3]])
  /\ (pc.op = "failed" /\ pc.step = "deployApp" /\ NoSource(AppAt(manifest, pc)))
       => /\ IsPrefix(S("App need repo or path "), err)
          /\ Contains(err, AppAt(manifest, pc).Name)

\* the run has failed at the application "bad", after the push of "usr"
C4_Witness ==
  /\ pc.op = "failed" /\ pc.step = "deployApp"
  /\ NoSource(AppAt(manifest, pc))
  /\ err = <<"App need repo or path ", "bad">>
  /\ \E n \in LogIdx : IsCmd(log[n], "push") /\ log[n].args[2] = S("usr")

\* C5: a repository application whose directory apps/<name> is there and
\* non-empty is not cloned: deployApp goes on to the push without a call, and
\* the push carries -p with that directory.
C5_FetchedNoClone ==
  /\ [][(/\ pc.op = "createApps" /\ pc.step = "deployApp"
         /\ AppAt(manifest, pc).Repo # Empty
         /\ fs[AppAt(manifest, pc).Name] = "nonempty")
          => (pc' = At(pc, "push", 0) /\ log' = log)]_vars
  /\ [][(/\ pc.op = "createApps" /\ pc.step = "push"
         /\ AppAt(manifest, pc).Repo # Empty)
          => /\ Len(log') = Len(log) + 1
             /\ SubSeq(log', 1, Len(log)) = log
             /\ log'[Len(log')].kind = "cli"
             /\ SubSeq(log'[Len(log')].args, 1, 4)
                  = <<S("push"), AppAt(manifest, pc).Name, S("-p"),
                      S("/work") \o S("/apps/") \o AppAt(manifest, pc).Name>>]_vars

\* "web" was pushed from its directory and no clone was made for it
C5_Witness ==
  \E n \in LogIdx :
    /\ IsCmd(log[n], "push")
    /\ log[n].args[2] = S("web")
    /\ log[n].args[4] = <<"/work", "/apps/", "web">>
    /\ fs[S("web")] = "nonempty"
    /\ \A m \in LogIdx : log[m].kind # "git"

\* the lookup of the application at pc has returned a hostname
Resolved == loc.routes.Resources # << >> /\ pc.step # "domain"

\* C6: the hostname route resolution returns is fixed by its lookup results:
\* with a match in the app search and an entry in the routes collection it is
\* host "." domainName of the first route, and the bare domainName when that
\* route has no host.
C6_RouteOfLookups ==
  Resolved =>
    LET first == loc.routes.Resources[1] IN
      /\ loc.res # << >>
      /\ first.Host # Empty
           => loc.appRoute = first.Host \o <<".">> \o loc.domainName
      /\ first.Host = Empty => loc.appRoute = loc.domainName

\* both shapes have been returned: a first route without host among two
\* routes, and here one with a host
C6_Witness ==
  /\ Resolved
  /\ Len(loc.res) = 2
  /\ Len(loc.routes.Resources) = 2
  /\ loc.appRoute = <<"web-abc", ".", "example.com">>
  /\ pc.step = "createServiceBroker"

BrokerCommands ==
  {"create-service-broker", "enable-service-access", "disable-service-access",
   "delete-service-broker"}

\* the lookup of the application plat is about is over
LookupOver == plat # NoView /\ pc.step \notin {"findApp", "routes", "domain"}

\* C7: when the routes collection of the application has no entry the lookup
\* ends in the "no routes" error naming the application, whatever the app
\* search returned, and no broker command is issued.  Stated for the runs in
\* which no call has failed: the lookup results alone decide.
C7_NoRoutesError ==
  (LookupOver /\ plat.routes = << >> /\ \A n \in LogIdx : log[n].ok)
    => /\ pc.op = "failed"
       /\ err = <<"App '">> \o plat.name \o <<"' has no routes">>
       /\ \A n \in LogIdx :
            (log[n].kind = "cli" /\ log[n].args[1][1] \in BrokerCommands)
              => <<log[n].at.i, log[n].at.j, log[n].at.k>> # <<pc.i, pc.j, pc.k>>

\* C8: create-service-broker is issued with the name, user name and password
\* of the manifest's broker, in that order, and with "https://" followed by
\* the hostname the lookup returned as its URL.
C8_BrokerUrl ==
  \A n \in LogIdx :
    (IsCmd(log[n], "create-service-broker")
       /\ <<log[n].at.i, log[n].at.j, log[n].at.k>> = <<pc.i, pc.j, pc.k>>)
      => LET broker == AppOfEntry(log[n]).ServiceBroker IN
           /\ Resolved
           /\ log[n].args = <<S("create-service-broker"), broker.Name,
                              broker.Username, broker.Password,
                              <<"https://">> \o loc.appRoute>>

\* the broker b1 of "api" was created at the route of the scenario
C8_Witness ==
  /\ log # << >>
  /\ log[Len(log)].ok
  /\ log[Len(log)].args =
       <<S("create-service-broker"), S("b1"), S("u"), S("p"),
         <<"https://", "web-abc", ".", "example.com">>>>

\* C9: a delete-service-broker carries -f and follows directly the
\* disable-service-access commands of the application, one for every entry
\* of its serviceAccess list, in list order.
C9_DisableBeforeDelete ==
  \A n \in LogIdx :
    IsCmd(log[n], "delete-service-broker") =>
      LET app == AppOfEntry(log[n])
          acc == app.ServiceAccess
          len == Len(acc)
      IN /\ log[n].args = <<S("delete-service-broker"), app.ServiceBroker.Name,
                            S("-f")>>
         /\ n > len
         /\ \A a \in 1..len :
              LET e == log[n - len + a - 1] IN
                /\ IsCmd(e, "disable-service-access")
                /\ e.args[2] = acc[a].Service
                /\ e.at = log[n].at
         /\ Cardinality({m \in LogIdx : /\ IsCmd(log[m], "disable-service-access")
                                        /\ log[m].at = log[n].at}) = len

\* the broker of an application with two access entries was deleted
C9_Witness ==
  \E n \in LogIdx :
    /\ IsCmd(log[n], "delete-service-broker") /\ log[n].ok
    /\ Len(AppOfEntry(log[n]).ServiceAccess) = 2
    /\ n > 2
    /\ log[n - 2].args = <<S("disable-service-access"), <<"svc", "1">>,
                           S("-p"), S("free")>>
    /\ log[n - 1].args = <<S("disable-service-access"), <<"svc", "2">>,
                           S("-o"), S("acme")>>

AcmeCommands ==
  <<<<S("create-org"), S("acme")>>,
    <<S("target"), S("-o"), S("acme")>>,
    <<S("create-space"), S("dev")>>,
    <<S("target"), S("-o"), S("acme"), S("-s"), S("dev")>>,
    <<S("push"), S("api"), S("-p"), S("./api")>>>>

LogArgs == [n \in LogIdx |-> log[n].args]

Min(x, y) == IF x < y THEN x ELSE y

\* C10: apply of the manifest acme / dev / api issues create-org acme,
\* target -o acme, create-space dev, target -o acme -s dev and
\* push api -p ./api, in this order with nothing in between and no query;
\* what follows the push is only the target of the service loop.
C10_AcmeScenario ==
  (manifest = AcmeManifest /\ ~cleanup) =>
    /\ IsPrefix(SubSeq(LogArgs, 1, Min(Len(log), 5)), AcmeCommands)
    /\ \A n \in LogIdx : log[n].kind = "cli"
    /\ \A n \in LogIdx : n > 5 => IsCmd(log[n], "target")
    /\ pc.op = "done" => Len(log) >= 5

\* the apply of the scenario has completed with every command succeeding
C10_Witness ==
  /\ manifest = AcmeManifest /\ ~cleanup /\ pc.op = "done"
  /\ SubSeq(LogArgs, 1, 5) = AcmeCommands
  /\ \A n \in LogIdx : log[n].ok

\* the scenario of C11: the calls of the application "api" after its push
BrokerScenario == manifest = AcmeBrokerManifest /\ ~cleanup

\* the entries m..n of the log are queries
QueriesAt(m, n) == \A q \in m..n : q \in LogIdx /\ log[q].kind = "query"

\* C11 as stated: in the scenario of the broker b1 exactly 3 queries lie
\* between the push and create-service-broker.
C11_ThreeQueries ==
  BrokerScenario =>
    \A n \in LogIdx :
      IsCmd(log[n], "create-service-broker") =>
        /\ n > 4
        /\ IsCmd(log[n - 4], "push")
        /\ QueriesAt(n - 3, n - 1)

\* C11, amended: after the push apply issues exactly 4 queries (app search,
\* app detail, routes, domain), then create-service-broker b1 u p
\* https://<route>, then enable-service-access s1 -p free, in that order and
\* with nothing in between.
C11_FourQueries ==
  BrokerScenario =>
    /\ \A n \in LogIdx :
         IsCmd(log[n], "create-service-broker") =>
           /\ n = 10
           /\ log[5].args = <<S("push"), S("api"), S("-p"), S("./api")>>
           /\ QueriesAt(6, 9)
           /\ log[6].args[2] = <<"/v2/spaces/">> \o loc.spaceGUID
                                 \o <<"/apps?q=name:", "api",
                                      "&inline-relations-depth=1">>
           /\ log[7].args[2] = <<"/v2/apps/">> \o loc.res[1]
           /\ log[8].args[2] = loc.appInfo.RoutesURL
           /\ log[9].args[2] = loc.routes.Resources[1].DomainURL
           /\ log[n].args = <<S("create-service-broker"), S("b1"), S("u"),
                              S("p"), <<"https://">> \o loc.appRoute>>
    /\ \A n \in LogIdx :
         IsCmd(log[n], "enable-service-access") =>
           /\ n = 11
           /\ IsCmd(log[10], "create-service-broker") /\ log[10].ok
           /\ log[n].args = <<S("enable-service-access"), S("s1"), S("-p"),
                              S("free")>>
    /\ Cardinality({n \in LogIdx : log[n].kind = "query"}) <= 4
    /\ pc.op = "done" => (Len(log) >= 11 /\ IsCmd(log[11], "enable-service-access"))

\* the apply of the scenario has completed with every call succeeding
C11_Witness ==
  /\ BrokerScenario /\ pc.op = "done"
  /\ \A n \in LogIdx : log[n].ok
  /\ QueriesAt(6, 9)
  /\ log[10].args = <<S("create-service-broker"), S("b1"), S("u"), S("p"),
                      <<"https://", "web-abc", ".", "example.com">>>>
  /\ IsCmd(log[11], "enable-service-access")

\* the phase of apply a call belongs to, 0 for a target command
ApplyPhase(e) ==
  CASE IsCmd(e, "target") -> 0
    [] IsCmd(e, "create-org") -> 1
    [] IsCmd(e, "create-space") -> 2
    [] IsCmd(e, "create-service") -> 4
    [] OTHER -> 3

PosOf(e) == <<e.at.i, e.at.j, e.at.k>>

\* the calls of the log that are not target commands, in order
Untargeted ==
  LET NotTarget(e) == ~IsCmd(e, "target") IN SelectSeq(log, NotTarget)

\* the number of spaces of the manifest
SpaceCount ==
  Cardinality(UNION {{<<i, j>> : j \in 1..Len(manifest.Organizations[i].Spaces)} :
                       i \in 1..Len(manifest.Organizations)})

\* C12: in apply every create-org precedes every create-space, every
\* create-space every push, and every push, query, clone and broker command
\* every create-service; within a phase the calls follow the manifest
\* order of the resources they are for.  (Phase and position never decrease
\* from one call to the next, so they are ordered between any two calls.)
C12_ApplyPhases ==
  ~cleanup =>
    /\ LET calls == Untargeted IN
         \A n \in 1..(Len(calls) - 1) :
           /\ ApplyPhase(calls[n]) <= ApplyPhase(calls[n + 1])
           /\ ApplyPhase(calls[n]) = ApplyPhase(calls[n + 1])
                => (PosOf(calls[n]) = PosOf(calls[n + 1])
                      \/ Before(PosOf(calls[n]), PosOf(calls[n + 1])))
    /\ \A n \in LogIdx :
         /\ IsCmd(log[n], "create-org")
              => log[n].args[2] = manifest.Organizations[log[n].at.i].Name
         /\ IsCmd(log[n], "create-space")
              => log[n].args[2]
                   = manifest.Organizations[log[n].at.i].Spaces[log[n].at.j].Name
         /\ IsCmd(log[n], "push") => log[n].args[2] = AppOfEntry(log[n]).Name
         /\ IsCmd(log[n], "create-service")
              => log[n].args[4]
                   = manifest.Organizations[log[n].at.i].Spaces[log[n].at.j]
                       .Services[log[n].at.k].Name
    /\ pc.op = "done" =>
         /\ Issued("create-org") = OrgNames
         /\ Len(Issued("create-space")) = SpaceCount

\* an apply over two organizations has completed: three spaces, three pushes
\* and two services
C12_Witness ==
  /\ ~cleanup /\ pc.op = "done"
  /\ manifest = GenManifest(2)
  /\ Len(Issued("create-space")) = 3
  /\ Len(Issued("push")) = 3
  /\ Len(Issued("create-service")) = 2
  /\ Len(Issued("create-service-broker")) = 1

DeleteCommands ==
  {"delete", "delete-service", "delete-space", "delete-org",
   "delete-service-broker"}

\* the phase of teardown a call belongs to, 0 for a target command
TeardownPhase(e) ==
  CASE IsCmd(e, "target") -> 0
    [] IsCmd(e, "delete-service") -> 2
    [] IsCmd(e, "delete-space") -> 3
    [] IsCmd(e, "delete-org") -> 4
    [] OTHER -> 1

\* C13: in teardown the delete of a broker application follows its completed
\* deregistration (the disable-service-access commands, then
\* delete-service-broker); the application deletes precede the service
\* deletes, these the delete-space and these the delete-org commands; and
\* every delete command carries -f.
C13_TeardownOrder ==
  cleanup =>
    /\ LET calls == Untargeted IN
         \A n \in 1..(Len(calls) - 1) :
           TeardownPhase(calls[n]) <= TeardownPhase(calls[n + 1])
    /\ \A n \in LogIdx :
         /\ (IsCmd(log[n], "delete") /\ AppOfEntry(log[n]).ServiceBroker # emptyServiceBroker)
              => LET len == Len(AppOfEntry(log[n]).ServiceAccess) IN
                   /\ n > len + 1
                   /\ IsCmd(log[n - 1], "delete-service-broker")
                   /\ log[n - 1].ok /\ log[n - 1].at = log[n].at
                   /\ \A a \in 1..len :
                        /\ IsCmd(log[n - 1 - len + a - 1], "disable-service-access")
                        /\ log[n - 1 - len + a - 1].ok
                        /\ log[n - 1 - len + a - 1].at = log[n].at
         /\ (log[n].kind = "cli" /\ log[n].args[1][1] \in DeleteCommands)
              => \E a \in 3..Len(log[n].args) : log[n].args[a] = <<"-f">>

\* a teardown over two organizations with a broker application has completed
C13_Witness ==
  /\ cleanup /\ pc.op = "done"
  /\ manifest = GenManifest(2)
  /\ Len(Issued("delete-service-broker")) = 1
  /\ Len(Issued("delete")) = 3
  /\ Len(Issued("delete-service")) = 2
  /\ Len(Issued("delete-space")) = 3
  /\ Len(Issued("delete-org")) = 2

\* a call of the broker lifecycle: a query or a broker or access command
Lifecycle(e) ==
  e.kind = "query" \/ (e.kind = "cli" /\ e.args[1][1] \in BrokerCommands)

\* any of name, username, password, url of the descriptor is set
DescriptorSet(app) ==
  \/ app.ServiceBroker.Name # Empty
  \/ app.ServiceBroker.Username # Empty
  \/ app.ServiceBroker.Password # Empty
  \/ app.ServiceBroker.Url # Empty

\* C14: the calls of the broker lifecycle are made for the applications whose
\* ServiceBroker descriptor is non-empty and for no other: in apply each of
\* them follows a call of the deploy step of its application and every
\* application with a descriptor that apply has got past has its
\* create-service-broker; in teardown every deleted application with a
\* descriptor has its delete-service-broker; a manifest without such an
\* application has no query, broker or access command at all.
C14_BrokerIffDescriptor ==
  /\ \A n \in LogIdx :
       Lifecycle(log[n]) =>
         /\ log[n].at.op \in AppOps /\ log[n].at.k >= 1
         /\ DescriptorSet(AppOfEntry(log[n]))
         /\ ~cleanup =>
              \E m \in 1..(n - 1) :
                /\ log[m].at = log[n].at
                /\ (IsCmd(log[m], "push") \/ log[m].kind = "git")
  /\ \A t \in Deployed :
       LET app == manifest.Organizations[t[1]].Spaces[t[2]].Apps[t[3]] IN
         (DescriptorSet(app) /\ (pc.op # "createApps" \/ Before(t, <<pc.i, pc.j, pc.k>>)))
           => \E n \in LogIdx :
                IsCmd(log[n], "create-service-broker") /\ PosOf(log[n]) = t
  /\ \A n \in LogIdx :
       (IsCmd(log[n], "delete") /\ DescriptorSet(AppOfEntry(log[n])))
         => \E m \in 1..(n - 1) :
              IsCmd(log[m], "delete-service-broker") /\ log[m].at = log[n].at
  /\ (\A app \in AllApps(manifest) : ~DescriptorSet(app))
       => \A n \in LogIdx : ~Lifecycle(log[n])

\* apply has registered the broker that has nothing but a user name and gone
\* on to the next application
C14_Witness ==
  /\ manifest = BadManifest /\ ~cleanup
  /\ pc.k = 2
  /\ \E n \in LogIdx :
       /\ IsCmd(log[n], "create-service-broker")
       /\ log[n].args[2] = Empty /\ log[n].args[3] = <<"u">>
       /\ AppOfEntry(log[n]).Name = <<"usr">>

\* a call that acts within the targeted organization or space
Scoped(e) == ~IsCmd(e, "target") /\ e.at.op \notin OrgOps

\* the index of the last target command among the first n calls, 0 without one
RECURSIVE LastTarget(_)
LastTarget(n) ==
  IF n = 0 THEN 0
  ELSE IF IsCmd(log[n], "target") THEN n
  ELSE LastTarget(n - 1)

\* the target command of the owner of the resource call e is about
OwnerTarget(e) ==
  LET org == manifest.Organizations[e.at.i] IN
    IF e.at.op \in SpaceOps THEN <<<<"target">>, <<"-o">>, org.Name>>
    ELSE <<<<"target">>, <<"-o">>, org.Name, <<"-s">>, org.Spaces[e.at.j].Name>>

\* C15: when a scoped call is made the last target command issued before it
\* names the organization owning the resource, and for the calls about
\* applications and services its space too.
C15_TargetBeforeScoped ==
  \A n \in LogIdx :
    Scoped(log[n]) =>
      LET m == LastTarget(n - 1) IN
        /\ m > 0
        /\ log[m].args = OwnerTarget(log[n])

\* a service of the second organization is created right after its space was
\* targeted, the first organization having been targeted before
C15_Witness ==
  /\ manifest = GenManifest(2) /\ ~cleanup
  /\ Len(log) > 2
  /\ IsCmd(log[Len(log)], "create-service")
  /\ log[Len(log) - 1].args
       = <<<<"target">>, <<"-o">>, <<"org", "2">>, <<"-s">>, <<"dev">>>>
  /\ \E m \in LogIdx :
       log[m].args = <<<<"target">>, <<"-o">>, <<"org", "1">>, <<"-s">>, <<"prod">>>>

\* C16: a target command that fails does not end the run: the step leaves no
\* error and the run goes on in the same sequence; the session is then the
\* one it was before or one without a space, and the calls that follow leave
\* it as it is.
C16_TargetUnchecked ==
  /\ [][pc.step = "target"
          => /\ Len(log') = Len(log) + 1
             /\ IsCmd(log'[Len(log')], "target")
             /\ pc'.op \in {pc.op, NextOp(pc.op)}
             /\ err' = err
             /\ ~log'[Len(log')].ok
                  => (session' = session \/ session'.space = Empty)]_vars
  /\ [][pc.step # "target" => session' = session]_vars

\* a space was created although the target command before it had failed, with
\* the session still at the organization and space targeted before the run
C16_Witness ==
  /\ Len(log) >= 2
  /\ IsCmd(log[Len(log) - 1], "target") /\ ~log[Len(log) - 1].ok
  /\ IsCmd(log[Len(log)], "create-space") /\ log[Len(log)].ok
  /\ session = OldTarget
  /\ pc.op \notin {"failed", "panicked"}

\* C17: once a query of the route lookup has failed the run ends with that
\* lookup, and no broker or access command is issued for that application
\* after the query.  Stated for the runs in which nothing else has failed.
C17_QueryFailureAborts ==
  \A n \in LogIdx :
    (log[n].kind = "query" /\ ~log[n].ok /\ faults = 1)
      => /\ \/ pc.op \in {"failed", "panicked"}
            \/ /\ PosOf(log[n]) = <<pc.i, pc.j, pc.k>>
               /\ pc.step \in {"findApp", "routes", "domain"}
         /\ \A m \in (n + 1)..Len(log) :
              ~(/\ log[m].kind = "cli"
                /\ log[m].args[1][1] \in BrokerCommands
                /\ log[m].at = log[n].at)

\* the push commands issued for the application at position t
PushesAt(t) == {n \in LogIdx : IsCmd(log[n], "push") /\ PosOf(log[n]) = t}

\* C19: every application whose deployApp has returned nil has had exactly
\* one push, and an apply that has completed one push for every application
\* of the manifest.  Stated for the runs in which nothing but a clone has
\* failed.
C19_OnePushPerDeploy ==
  (faults <= 1 /\ \A n \in LogIdx : log[n].ok \/ log[n].kind = "git")
    => /\ \A t \in Deployed : Cardinality(PushesAt(t)) = 1
       /\ (~cleanup /\ pc.op = "done")
            => Len(Issued("push")) = Cardinality(AppPositions(manifest))

\* the platform holds nothing for the application looked up
NothingThere == plat.search = << >> /\ plat.routes = << >>

ServiceCount ==
  Cardinality(UNION {UNION {{<<i, j, k>> :
                               k \in 1..Len(manifest.Organizations[i].Spaces[j].Services)} :
                              j \in 1..Len(manifest.Organizations[i].Spaces)} :
                       i \in 1..Len(manifest.Organizations)})

\* C20: a teardown against a platform that holds none of the resources, with
\* every call succeeding, does not end in an error, and when it is done it
\* has issued the delete command of every application, service, space and
\* organization of the manifest.
C20_TeardownIdempotent ==
  (cleanup /\ NothingThere /\ faults = 0)
    => /\ pc.op \notin {"failed", "panicked"}
       /\ pc.op = "done"
            => /\ Len(Issued("delete")) = Cardinality(AppPositions(manifest))
               /\ Len(Issued("delete-service")) = ServiceCount
               /\ Len(Issued("delete-space")) = SpaceCount
               /\ Issued("delete-org") = OrgNames

\* the organization and space a target command asks for
TargetOf(e) ==
  [org |-> e.args[3], space |-> IF Len(e.args) = 5 THEN e.args[5] ELSE Empty]

\* C18: the two runs act on one session: whichever run issues a call, the
\* session it meets is the one the last target command of either run has set
\* (or the one found at the start when there was none), not the one its own
\* run has targeted.
C18_SharedSession ==
  LET m == LastTarget(Len(log)) IN
    IF m = 0 THEN session \in {NoTarget, OldTarget}
    ELSE session = TargetOf(log[m])

\* the run of acme has pushed api into acme/dev and then searched for it in
\* the space beta/qa, which the other run had targeted in between
C18_Witness ==
  /\ manifest = AcmeBrokerManifest /\ ~cleanup
  /\ other.manifest = BetaManifest
  /\ session = [org |-> <<"beta">>, space |-> <<"qa">>]
  /\ Len(log) > 2
  /\ log[Len(log)].kind = "query"
  /\ log[Len(log)].args[2]
       = <<"/v2/spaces/", "guid:", "beta", "/", "qa", "/apps?q=name:", "api",
           "&inline-relations-depth=1">>
  /\ log[Len(log) - 1].args = <<<<"target">>, <<"-o">>, <<"beta">>, <<"-s">>, <<"qa">>>>
  /\ \E n \in LogIdx :
       /\ IsCmd(log[n], "push") /\ log[n].args[2] = <<"api">>
       /\ log[n - 1].args = <<<<"target">>, <<"-o">>, <<"acme">>, <<"-s">>, <<"dev">>>>

====
